---- MODULE Spec2Model ----
(***************************************************************************)
(* LRUCache (src/LRUCache.cpp): a fixed-capacity key/value cache made of a *)
(* hand-written doubly linked list (LRUTwoWayList, front = MRU, back =     *)
(* LRU) of heap-allocated TwoWayListNode and an unordered_map from key to  *)
(* node pointer.  The heap is modelled explicitly: a node is an address,   *)
(* `new` makes an address live, `delete` ends its life, and a pointer to   *)
(* a dead address is dangling.  Reading through a dangling pointer yields  *)
(* any value of the field's type, writing through it is lost, and both are *)
(* recorded in uaf.                                                        *)
(***************************************************************************)
EXTENDS Integers, Sequences, FiniteSets, TLC

\* ------------------------------------------------------------------ bounds
MaxCap == 3      \* largest capacity passed to the constructor
MaxKey == 4      \* keys are 1..MaxKey
MaxVal == 1      \* values are -1 and 1..MaxVal
MaxAfterUB == 1  \* calls followed after the first use of a deleted node
MaxThrows == 1   \* allocations that fail in one run
MaxEvictions == 3  \* evictions counted in one run

\* -------------------------------------------------------- program constants
KEY_NOT_FOUND_RET_VAL == -1
NULL == 0

Keys       == 1..MaxKey
Values     == {KEY_NOT_FOUND_RET_VAL} \cup (1..MaxVal)
Capacities == (-1)..MaxCap
Addr       == 1..MaxCap
Ptr        == Addr \cup {NULL}

VARIABLES
    phase,           \* "init" | "live" | "failed" | "crashed" | "destroyed"
    _capacity,       \* LRUCache::_capacity
    _size,           \* LRUTwoWayList::_size
    _front,          \* LRUTwoWayList::_front
    _back,           \* LRUTwoWayList::_back
    heap,            \* the TwoWayListNode at each address
    _lru_cache_map,  \* LRUCache::_lru_cache_map, a function key -> address
    uaf,             \* a node was read or written after its delete
    dblfree,         \* a node was deleted twice
    afterUB,         \* calls made since the first use of a deleted node
    throws,          \* allocations that have thrown bad_alloc
    lastOp,          \* the last call: operation, branch taken, arguments, result
    keys_put,        \* history: the keys passed to put so far
    inserts,         \* history: the puts of a key that was not in the map
    evictions        \* history: the puts that took the eviction branch

hist == <<keys_put, inserts, evictions>>

vars == <<phase, _capacity, _size, _front, _back, heap, _lru_cache_map,
          uaf, dblfree, afterUB, throws, lastOp, hist>>

\* ------------------------------------------------------------------- nodes
TwoWayListNode(key, value) ==
    [key |-> key, value |-> value, prev |-> NULL, next |-> NULL, live |-> TRUE]

Deleted == [key |-> 0, value |-> 0, prev |-> NULL, next |-> NULL, live |-> FALSE]

\* What a field of a deleted node may read as.
Garbage(f) ==
    CASE f = "key"   -> 0..MaxKey
      [] f = "value" -> Values
      [] OTHER       -> Ptr

\* The list together with the memory it points into.
ListState ==
    [size |-> _size, front |-> _front, back |-> _back, heap |-> heap,
     uaf |-> uaf, crashed |-> FALSE]

\* p-> : a null p ends the program, a dangling p is a use after free.
Deref(L, p) ==
    IF L.crashed THEN L
    ELSE IF p = NULL THEN [L EXCEPT !.crashed = TRUE]
    ELSE IF L.heap[p].live THEN L
    ELSE [L EXCEPT !.uaf = TRUE]

\* The values p->f may yield.
Load(L, p, f) ==
    IF p = NULL THEN {0}
    ELSE IF L.heap[p].live THEN {L.heap[p][f]}
    ELSE Garbage(f)

\* p->f = x
Store(L, p, f, x) ==
    LET D == Deref(L, p)
    IN  IF D.crashed THEN D
        ELSE IF D.heap[p].live THEN [D EXCEPT !.heap[p][f] = x]
        ELSE D

\* ------------------------------------------------------------ LRUTwoWayList
\* The deleted addresses some pointer of the program still holds.
Dangling ==
    {a \in Addr : /\ ~heap[a].live
                  /\ \/ a \in {_front, _back}
                     \/ \E k \in DOMAIN _lru_cache_map : _lru_cache_map[k] = a
                     \/ \E b \in Addr : heap[b].live /\ a \in {heap[b].prev, heap[b].next}}

\* The addresses `new` may return: memory a dangling pointer still names, or
\* memory nothing names (such addresses are interchangeable: the lowest).
NewAddresses ==
    LET free  == {a \in Addr : ~heap[a].live}
        fresh == free \ Dangling
    IN  (free \cap Dangling) \cup {a \in fresh : \A b \in fresh : a <= b}

\* Faulty variant: the node is linked but not counted.
add_to_front_NotCounted(L, new_node, key, value) ==
    LET L0 == [L EXCEPT !.heap[new_node] = TwoWayListNode(key, value)]
    IN  IF L0.front = NULL /\ L0.back = NULL
        THEN [L0 EXCEPT !.front = new_node, !.back = new_node]
        ELSE LET A == Store(L0, new_node, "next", L0.front)
                 B == Store(A, A.front, "prev", new_node)
             IN  IF B.crashed THEN B ELSE [B EXCEPT !.front = new_node]

add_to_front(L, new_node, key, value) ==
    LET L0 == [L EXCEPT !.heap[new_node] = TwoWayListNode(key, value)]
        L1 == IF L0.front = NULL /\ L0.back = NULL
              THEN [L0 EXCEPT !.front = new_node, !.back = new_node]
              ELSE LET A == Store(L0, new_node, "next", L0.front)
                       B == Store(A, A.front, "prev", new_node)
                   IN  IF B.crashed THEN B ELSE [B EXCEPT !.front = new_node]
    IN  IF L1.crashed THEN L1 ELSE [L1 EXCEPT !.size = @ + 1]

\* Faulty variant: cutting the back node off also takes it out of the count.
UnplugBack_Uncounted(L) ==
    { LET D == Deref(L, L.back)
      IN  IF D.crashed THEN D
          ELSE Store([D EXCEPT !.back = b, !.size = @ - 1], b, "next", NULL)
      : b \in Load(L, L.back, "prev") }

\* Lines 134-138: the back node is cut off, its predecessor becomes the back.
UnplugBack(L) ==
    { LET D == Deref(L, L.back)
      IN  IF D.crashed THEN D
          ELSE Store([D EXCEPT !.back = b], b, "next", NULL)
      : b \in Load(L, L.back, "prev") }

\* Lines 139-143: an inner node's neighbours are linked to each other.
UnplugInner(L, given_node) ==
    { LET D  == Deref(L, given_node)
          L1 == Store(D, px[1], "next", px[2])
          x2 == IF L1.heap[given_node].live THEN L1.heap[given_node].next ELSE px[2]
          p2 == IF L1.heap[given_node].live THEN L1.heap[given_node].prev ELSE px[1]
      IN  Store(L1, x2, "prev", p2)
      : px \in Load(L, given_node, "prev") \X Load(L, given_node, "next") }

\* Lines 145-149.
MakeFront(L, given_node) ==
    LET L2 == Store(L, given_node, "next", L.front)
        L3 == Store(L2, given_node, "prev", NULL)
        L4 == Store(L3, L3.front, "prev", given_node)
    IN  IF L4.crashed THEN L4 ELSE [L4 EXCEPT !.front = given_node]

\* Faulty variant: the node is not moved.
move_to_front_Skipped(L, given_node) == {L}

move_to_front(L, given_node) ==
    IF L.crashed \/ L.front = given_node
    THEN {L}
    ELSE { MakeFront(U, given_node) :
             U \in IF L.back = given_node THEN UnplugBack(L)
                                          ELSE UnplugInner(L, given_node) }

\* ------------------------------------------------ std::unordered_map
EmptyMap == [k \in {} |-> NULL]

Erase(m, key) == [k \in DOMAIN m \ {key} |-> m[k]]

Insert(m, key, node) ==
    [k \in DOMAIN m \cup {key} |-> IF k = key THEN node ELSE m[k]]

\* ------------------------------------------- the list as operator<< walks it
\* Lines 176-184: from front along _next until null, at most fuel nodes.
RECURSIVE Walk(_, _, _)
Walk(h, p, fuel) ==
    IF p = NULL \/ fuel = 0 THEN <<>>
    ELSE IF ~h[p].live THEN <<p>>
    ELSE <<p>> \o Walk(h, h[p].next, fuel - 1)

WalkFuel == Cardinality(Addr) + 1

\* The [key, value] pairs front to back.
Entries(h, front) ==
    LET w == Walk(h, front, WalkFuel)
    IN  [i \in 1..Len(w) |-> [key |-> h[w[i]].key, value |-> h[w[i]].value]]

KeysOf(es) == [i \in 1..Len(es) |-> es[i].key]

\* ------------------------------------------------------- reference LRU
RefHas(r, key) == \E i \in 1..Len(r) : r[i].key = key

RefValue(r, key) ==
    IF RefHas(r, key)
    THEN (CHOOSE e \in {r[i] : i \in 1..Len(r)} : e.key = key).value
    ELSE KEY_NOT_FOUND_RET_VAL

RefWithout(r, key) == SelectSeq(r, LAMBDA e : e.key # key)

RefGet(r, key) ==
    IF RefHas(r, key)
    THEN <<[key |-> key, value |-> RefValue(r, key)]>> \o RefWithout(r, key)
    ELSE r

RefPut(r, cap, key, value) ==
    LET e == [key |-> key, value |-> value]
    IN  IF RefHas(r, key) THEN <<e>> \o RefWithout(r, key)
        ELSE IF Len(r) < cap THEN <<e>> \o r
        ELSE <<e>> \o SubSeq(r, 1, Len(r) - 1)

\* ------------------------------------------------------------------- calls
\* A call can be made: the object exists; once a deleted node has been used
\* the behaviour is undefined and only MaxAfterUB further calls are followed.
Callable ==
    /\ phase = "live"
    /\ (uaf \/ dblfree) => afterUB < MaxAfterUB
    /\ afterUB' = IF uaf \/ dblfree THEN afterUB + 1 ELSE afterUB

\* For the constructor, value holds the capacity argument.
Op(op, path, key, value, ret, threw) ==
    [op |-> op, path |-> path, key |-> key, value |-> value, ret |-> ret,
     threw |-> threw]

\* The list after a call; a crash ends the program where it stood.
Commit(L) ==
    IF L.crashed
    THEN /\ phase' = "crashed"
         /\ uaf' = L.uaf
         /\ UNCHANGED <<_size, _front, _back, heap>>
    ELSE /\ phase' = phase
         /\ _size' = L.size
         /\ _front' = L.front
         /\ _back' = L.back
         /\ heap' = L.heap
         /\ uaf' = L.uaf

Init ==
    /\ phase = "init"
    /\ _capacity = -1
    /\ _size = 0
    /\ _front = NULL
    /\ _back = NULL
    /\ heap = [a \in Addr |-> Deleted]
    /\ _lru_cache_map = EmptyMap
    /\ uaf = FALSE
    /\ dblfree = FALSE
    /\ afterUB = 0
    /\ throws = 0
    /\ lastOp = Op("none", "none", 0, 0, 0, "none")
    /\ keys_put = {}
    /\ inserts = 0
    /\ evictions = 0

\* Faulty variant: only a negative capacity is refused.
ConstructAcceptsZero(capacity) ==
    /\ phase = "init"
    /\ _capacity' = capacity
    /\ IF 0 > capacity
       THEN /\ phase' = "failed"
            /\ lastOp' = Op("construct", "invalid", 0, capacity, 0, "InvalidCapacity")
       ELSE /\ phase' = "live"
            /\ lastOp' = Op("construct", "valid", 0, capacity, 0, "none")
    /\ UNCHANGED <<_size, _front, _back, heap, _lru_cache_map, uaf, dblfree,
                   afterUB, throws>>

Construct(capacity) ==
    /\ phase = "init"
    /\ _capacity' = capacity
    /\ IF 0 >= capacity
       THEN /\ phase' = "failed"
            /\ lastOp' = Op("construct", "invalid", 0, capacity, 0, "InvalidCapacity")
       ELSE /\ phase' = "live"
            /\ lastOp' = Op("construct", "valid", 0, capacity, 0, "none")
    /\ UNCHANGED <<_size, _front, _back, heap, _lru_cache_map, uaf, dblfree,
                   afterUB, throws>>

\* Faulty variant: a miss returns a value-initialised int.
GetMissReturnsZero(key) ==
    /\ lastOp' = Op("get", "miss", key, 0, 0, "none")
    /\ UNCHANGED <<phase, _size, _front, _back, heap, uaf, _lru_cache_map>>

\* Lines 265-268: the key is not in the map.
GetMiss(key) ==
    /\ lastOp' = Op("get", "miss", key, 0, KEY_NOT_FOUND_RET_VAL, "none")
    /\ UNCHANGED <<phase, _size, _front, _back, heap, uaf, _lru_cache_map>>

\* Lines 270-273: the node is moved to the front and its value returned.
GetHit(key) ==
    LET node == _lru_cache_map[key]
    IN  \E L \in move_to_front(ListState, node) :
        \E r \in Load(L, node, "value") :
            /\ Commit(Deref(L, node))
            /\ lastOp' = Op("get", "hit", key, 0, r, "none")
            /\ UNCHANGED _lru_cache_map

Get(key) ==
    /\ Callable
    /\ UNCHANGED <<_capacity, dblfree, throws>>
    /\ IF key \notin DOMAIN _lru_cache_map THEN GetMiss(key) ELSE GetHit(key)

\* Lines 263-273: what get(key) can return with memory h and index m.
GetReturnsIn(h, m, key) ==
    IF key \notin DOMAIN m THEN {KEY_NOT_FOUND_RET_VAL}
    ELSE IF h[m[key]].live THEN {h[m[key]].value}
    ELSE Garbage("value")

\* What get(key) can return in the current state.
GetReturns(key) == GetReturnsIn(heap, _lru_cache_map, key)

PutUpdate(key, value) ==
    LET node == _lru_cache_map[key]
    IN  \E L \in move_to_front(Store(ListState, node, "value", value), node) :
            /\ Commit(L)
            /\ UNCHANGED _lru_cache_map
            /\ lastOp' = Op("put", "update", key, value, 0, "none")

PutEvict(key, value, fail) ==
    LET new_node == _back
    IN  \E old \in Load(ListState, new_node, "key") :
        \E L \in move_to_front(
                   Store(Store(ListState, new_node, "key", key),
                         new_node, "value", value), new_node) :
            /\ Commit(L)
            /\ _lru_cache_map' =
                  IF L.crashed THEN _lru_cache_map
                  ELSE IF fail = "index" THEN Erase(_lru_cache_map, old)
                  ELSE Insert(Erase(_lru_cache_map, old), key, new_node)
            /\ lastOp' = Op("put", "evict", key, value, 0,
                            IF fail = "index" THEN "bad_alloc" ELSE "none")

PutGrow(key, value, fail) ==
    IF fail = "node"
    THEN /\ lastOp' = Op("put", "grow", key, value, 0, "bad_alloc")
         /\ UNCHANGED <<phase, _size, _front, _back, heap, uaf, _lru_cache_map>>
    ELSE \E new_node \in NewAddresses :
         LET L == add_to_front(ListState, new_node, key, value)
         IN  /\ Commit(L)
             /\ _lru_cache_map' =
                   IF L.crashed \/ fail = "index" THEN _lru_cache_map
                   ELSE Insert(_lru_cache_map, key, new_node)
             /\ lastOp' = Op("put", "grow", key, value, 0,
                             IF fail = "index" THEN "bad_alloc" ELSE "none")

\* Faulty variant: the capacity test of line 294 is off by one.
PutOffByOne(key, value, fail) ==
    /\ Callable
    /\ UNCHANGED <<_capacity, dblfree>>
    /\ fail # "none" => throws < MaxThrows
    /\ throws' = IF fail = "none" THEN throws ELSE throws + 1
    /\ IF key \in DOMAIN _lru_cache_map
       THEN fail = "none" /\ PutUpdate(key, value)
       ELSE IF _size = _capacity + 1
            THEN fail \in {"none", "index"} /\ PutEvict(key, value, fail)
            ELSE PutGrow(key, value, fail)

\* fail: which allocation of the call throws bad_alloc ("none": none does).
Put(key, value, fail) ==
    /\ Callable
    /\ UNCHANGED <<_capacity, dblfree>>
    /\ fail # "none" => throws < MaxThrows
    /\ throws' = IF fail = "none" THEN throws ELSE throws + 1
    /\ IF key \in DOMAIN _lru_cache_map
       THEN fail = "none" /\ PutUpdate(key, value)
       ELSE IF _size = _capacity
            THEN fail \in {"none", "index"} /\ PutEvict(key, value, fail)
            ELSE PutGrow(key, value, fail)

\* Lines 337-342: every mapped node is deleted, the map is emptied; the list's
\* _front, _back and _size are not touched.
ClearBody ==
    LET targets == {_lru_cache_map[k] : k \in DOMAIN _lru_cache_map}
        again   == \/ \E n \in targets : ~heap[n].live
                   \/ \E j, k \in DOMAIN _lru_cache_map :
                         j # k /\ _lru_cache_map[j] = _lru_cache_map[k]
    IN  /\ heap' = [a \in Addr |-> IF a \in targets THEN Deleted ELSE heap[a]]
        /\ dblfree' = (dblfree \/ again)
        /\ _lru_cache_map' = EmptyMap
        /\ UNCHANGED <<_capacity, _size, _front, _back, uaf, throws>>

Clear ==
    /\ Callable
    /\ ClearBody
    /\ phase' = phase
    /\ UNCHANGED hist
    /\ lastOp' = Op("clear", "clear", 0, 0, 0, "none")

Destroy ==
    /\ Callable
    /\ ClearBody
    /\ phase' = "destroyed"
    /\ UNCHANGED hist
    /\ lastOp' = Op("destroy", "destroy", 0, 0, 0, "none")

\* ---------------------------------------------------------- specifications
DoConstruct == UNCHANGED hist /\ \E c \in Capacities : Construct(c)
DoGet       == UNCHANGED hist /\ \E k \in Keys : Get(k)
DoPut       == UNCHANGED hist /\ \E k \in Keys, v \in Values : Put(k, v, "none")
DoPutThrow  ==
    UNCHANGED hist /\ \E k \in Keys, v \in Values, f \in {"node", "index"} : Put(k, v, f)

\* Lines 283-294: what a put of key adds to the history of the calls.
Count(key) ==
    LET absent == key \notin DOMAIN _lru_cache_map
    IN  /\ keys_put' = keys_put \cup {key}
        /\ inserts' = IF absent THEN inserts + 1 ELSE inserts
        /\ evictions' = IF absent /\ _size = _capacity THEN evictions + 1
                                                      ELSE evictions

\* put with the history kept; runs are followed up to MaxEvictions evictions
DoPutCounted ==
    \E k \in Keys, v \in Values :
        /\ (k \notin DOMAIN _lru_cache_map /\ _size = _capacity)
              => evictions < MaxEvictions
        /\ Put(k, v, "none")
        /\ Count(k)

\* put and get on a freshly constructed cache, no allocation failure
NextPG == DoConstruct \/ DoGet \/ DoPut

SpecPG == Init /\ [][NextPG]_vars

\* put and get on a freshly constructed cache with the history of the puts
NextCount == DoConstruct \/ DoGet \/ DoPutCounted

SpecCount == Init /\ [][NextCount]_vars

\* the whole public interface
Next == DoConstruct \/ DoGet \/ DoPut \/ DoPutThrow \/ Clear \/ Destroy

Spec == Init /\ [][Next]_vars

\* ------------------------------------------------------------------ claims
\* The recency list as a sequence of [key, value], front to back.
Abs == Entries(heap, _front)

\* The index and the list hold the same keys, each key mapped to its own node.
IndexMatchesList ==
    /\ DOMAIN _lru_cache_map = {Abs[i].key : i \in 1..Len(Abs)}
    /\ \A k \in DOMAIN _lru_cache_map :
          /\ heap[_lru_cache_map[k]].live
          /\ heap[_lru_cache_map[k]].key = k

\* C1: on a freshly constructed cache, under put and get without allocation
\* failure, the cache simulates the reference LRU step by step: the empty
\* cache is the empty reference; every put takes the list (keys and values,
\* front to back) to what the reference put makes of it, every get takes it
\* to what the reference get makes of it and returns the reference's result,
\* and the index always holds exactly the keys of the list.
C1_RefinesReferenceLRU ==
    [][ /\ lastOp'.op = "construct" => Abs' = <<>>
        /\ lastOp'.op = "put" =>
              Abs' = RefPut(Abs, _capacity, lastOp'.key, lastOp'.value)
        /\ lastOp'.op = "get" =>
              /\ Abs' = RefGet(Abs, lastOp'.key)
              /\ lastOp'.ret = RefValue(Abs, lastOp'.key)
        /\ IndexMatchesList'
        /\ _size' = Len(Abs')
      ]_vars

\* A full cache of the largest capacity whose last put evicted.
C1_Witness ==
    /\ phase = "live"
    /\ lastOp.path = "evict"
    /\ _capacity = MaxCap
    /\ Len(Abs) = MaxCap
    /\ _back # _front

\* The keys of a sequence of keys other than k, in order.
Others(ks, k) == SelectSeq(ks, LAMBDA x : x # k)

\* The nodes of the list, front to back.
Nodes == Walk(heap, _front, WalkFuel)

\* C2: after every get, put and clear the index and the list have the same
\* number of entries, at most capacity; every key of the index maps to a node
\* of the list that stores that key; every node of the list has its key in
\* the index, mapped to that node; the keys of the list are pairwise distinct.
C2_IndexAndListAgree ==
    (phase = "live" /\ lastOp.op \in {"get", "put", "clear"}
                    /\ lastOp.threw = "none") =>
        /\ Cardinality(DOMAIN _lru_cache_map) = _size
        /\ Len(Nodes) = _size
        /\ _size <= _capacity
        /\ \A k \in DOMAIN _lru_cache_map :
              /\ \E i \in 1..Len(Nodes) : Nodes[i] = _lru_cache_map[k]
              /\ heap[_lru_cache_map[k]].live
              /\ heap[_lru_cache_map[k]].key = k
        /\ \A i \in 1..Len(Nodes) :
              /\ heap[Nodes[i]].live
              /\ heap[Nodes[i]].key \in DOMAIN _lru_cache_map
              /\ _lru_cache_map[heap[Nodes[i]].key] = Nodes[i]
        /\ \A i, j \in 1..Len(Nodes) :
              i # j => heap[Nodes[i]].key # heap[Nodes[j]].key

\* C3: a put of an absent key at size() = capacity() evicts the key that was
\* at the back: the call returns, get of that key then returns not-found,
\* size() is as before, the new key is resident with the new value, and every
\* other key that was resident still is, with its value.
C3_PutAtCapacityEvictsBack ==
    [][ (lastOp'.op = "put" /\ lastOp'.key \notin DOMAIN _lru_cache_map
                            /\ _size = _capacity) =>
          /\ phase' = "live"
          /\ lastOp'.threw = "none"
          /\ _back # NULL /\ heap[_back].live
          /\ GetReturnsIn(heap', _lru_cache_map', heap[_back].key)
                = {KEY_NOT_FOUND_RET_VAL}
          /\ _size' = _size
          /\ lastOp'.key \in DOMAIN _lru_cache_map'
          /\ GetReturnsIn(heap', _lru_cache_map', lastOp'.key) = {lastOp'.value}
          /\ \A j \in DOMAIN _lru_cache_map \ {heap[_back].key} :
                /\ j \in DOMAIN _lru_cache_map'
                /\ GetReturnsIn(heap', _lru_cache_map', j)
                      = GetReturnsIn(heap, _lru_cache_map, j)
      ]_vars

\* C4: after clear() size() is 0, the index is empty, front and back are both
\* absent, and capacity() is what it was.
C4_ClearEmptiesTheCache ==
    [][ lastOp'.op = "clear" =>
          /\ _size' = 0
          /\ _lru_cache_map' = EmptyMap
          /\ _front' = NULL
          /\ _back' = NULL
          /\ _capacity' = _capacity
      ]_vars

\* C5: a put on the growth path that ends in an allocation failure leaves the
\* size, the index and the recency list exactly as they were.
C5_FailedGrowthChangesNothing ==
    [][ (lastOp'.op = "put" /\ lastOp'.path = "grow"
                            /\ lastOp'.threw = "bad_alloc") =>
          UNCHANGED <<_size, _lru_cache_map, _front, _back, heap>>
      ]_vars

\* C6: after a put(k, v) that returned, k is the front of the recency list
\* and get(k) returns v.
C6_PutMakesFrontAndReadable ==
    (phase = "live" /\ lastOp.op = "put" /\ lastOp.threw = "none") =>
        /\ _front # NULL
        /\ heap[_front].live
        /\ heap[_front].key = lastOp.key
        /\ GetReturns(lastOp.key) = {lastOp.value}

\* C7: get(k) of a resident k returns the value stored for k and leaves k at
\* the front; size(), the resident keys, every stored value and the relative
\* order of the other entries are as before.
C7_GetHitPromotesOnly ==
    [][ (lastOp'.op = "get" /\ lastOp'.key \in DOMAIN _lru_cache_map) =>
          /\ phase' = "live"
          /\ {lastOp'.ret} = GetReturns(lastOp'.key)
          /\ _front' = _lru_cache_map[lastOp'.key]
          /\ heap'[_front'].live /\ heap'[_front'].key = lastOp'.key
          /\ _size' = _size
          /\ _lru_cache_map' = _lru_cache_map
          /\ \A j \in DOMAIN _lru_cache_map :
                GetReturnsIn(heap', _lru_cache_map', j) = GetReturns(j)
          /\ Others(KeysOf(Abs'), lastOp'.key) = Others(KeysOf(Abs), lastOp'.key)
      ]_vars

\* C8: get(k) of a k that is not resident returns -1 and leaves the size,
\* the index, the recency order and every node as they were.
C8_GetMissChangesNothing ==
    [][ (lastOp'.op = "get" /\ lastOp'.key \notin DOMAIN _lru_cache_map) =>
          /\ lastOp'.ret = KEY_NOT_FOUND_RET_VAL
          /\ phase' = "live"
          /\ UNCHANGED <<_capacity, _size, _front, _back, heap, _lru_cache_map>>
      ]_vars

\* A miss on a cache that holds entries.
C8_Witness ==
    /\ phase = "live"
    /\ lastOp.op = "get"
    /\ lastOp.path = "miss"
    /\ lastOp.ret = KEY_NOT_FOUND_RET_VAL
    /\ _size = _capacity
    /\ Len(Abs) > 1

\* C9: put(k, v) of a resident k stores v for k and makes k the front, and
\* evicts nothing: size(), the resident keys, the values of the other keys
\* and the relative order of the other entries are as before.
C9_PutUpdateNeverEvicts ==
    [][ (lastOp'.op = "put" /\ lastOp'.key \in DOMAIN _lru_cache_map) =>
          /\ phase' = "live"
          /\ GetReturnsIn(heap', _lru_cache_map', lastOp'.key) = {lastOp'.value}
          /\ _front' = _lru_cache_map[lastOp'.key]
          /\ heap'[_front'].live /\ heap'[_front'].key = lastOp'.key
          /\ _size' = _size
          /\ DOMAIN _lru_cache_map' = DOMAIN _lru_cache_map
          /\ \A j \in DOMAIN _lru_cache_map \ {lastOp'.key} :
                GetReturnsIn(heap', _lru_cache_map', j) = GetReturns(j)
          /\ Others(KeysOf(Abs'), lastOp'.key) = Others(KeysOf(Abs), lastOp'.key)
      ]_vars

\* C10: the constructor fails with InvalidCapacity for a capacity <= 0 and
\* then there is no cache to call; for a capacity > 0 it yields an empty
\* cache of that capacity, and no later call changes the capacity.
C10_ConstructorChecksCapacity ==
    [][ /\ lastOp'.op = "construct" =>
              IF lastOp'.value <= 0
              THEN /\ phase' = "failed"
                   /\ lastOp'.threw = "InvalidCapacity"
              ELSE /\ phase' = "live"
                   /\ lastOp'.threw = "none"
                   /\ _capacity' = lastOp'.value
                   /\ _size' = 0
                   /\ _lru_cache_map' = EmptyMap
                   /\ _front' = NULL /\ _back' = NULL
        /\ phase = "failed" => UNCHANGED vars
        /\ phase # "init" => _capacity' = _capacity
      ]_vars

\* The constructor was called with capacity zero.
C10_Witness ==
    /\ lastOp.op = "construct"
    /\ lastOp.value = 0
    /\ phase = "failed"

\* C11: in every state reached through get, put and clear, also after an
\* allocation failure and after clear() has left the list behind,
\* 0 <= size() <= capacity().
C11_SizeWithinCapacity ==
    phase = "live" => (0 <= _size /\ _size <= _capacity)

\* A put on a full list of the largest capacity whose index holds fewer keys
\* than the list has nodes (clear() or a failed index insertion came before).
C11_Witness ==
    /\ phase = "live"
    /\ lastOp.op = "put"
    /\ _size = _capacity
    /\ _capacity = MaxCap
    /\ Cardinality(DOMAIN _lru_cache_map) < _size

Allocated(h) == {a \in Addr : h[a].live}

\* C13: only a put on the growth path can end in an allocation failure: a
\* put of a new key at full capacity allocates and frees no node and does
\* not end in bad_alloc, and neither does a put of a resident key or a get.
C13_OnlyGrowthCanFailToAllocate ==
    [][ /\ lastOp'.threw = "bad_alloc" => lastOp'.path = "grow"
        /\ (lastOp'.op = "put" /\ lastOp'.path = "evict") =>
              /\ Allocated(heap') = Allocated(heap)
              /\ lastOp'.threw = "none"
        /\ (lastOp'.op = "put" /\ lastOp'.path = "update") =>
              lastOp'.threw = "none"
        /\ lastOp'.op = "get" => lastOp'.threw = "none"
      ]_vars

\* C14: after a get(k) that found k, a second get(k) returns the same value
\* and leaves the recency list (front, back, size, every link) as the first
\* call left it.
C14_SecondGetChangesNothing ==
    (phase = "live" /\ lastOp.op = "get" /\ lastOp.path = "hit") =>
        /\ lastOp.key \in DOMAIN _lru_cache_map
        /\ GetReturns(lastOp.key) = {lastOp.ret}
        /\ \A L \in move_to_front(ListState, _lru_cache_map[lastOp.key]) :
              /\ ~L.crashed
              /\ L.size = _size /\ L.front = _front /\ L.back = _back
              /\ L.heap = heap

\* C15: under put and get size() never decreases; once size() = capacity()
\* it stays so after every later put and get; and once capacity() distinct
\* keys have been put, size() = capacity().
C15_SizeGrowsToCapacityAndStays ==
    [][ lastOp'.op \in {"put", "get"} =>
          /\ _size' >= _size
          /\ _size = _capacity => _size' = _capacity
          /\ Cardinality(keys_put') >= _capacity => _size' = _capacity
      ]_vars

\* A get on a full cache of the largest capacity after more distinct keys
\* than the capacity have been put.
C15_Witness ==
    /\ phase = "live"
    /\ lastOp.op = "get"
    /\ lastOp.path = "hit"
    /\ _size = _capacity
    /\ _capacity = MaxCap
    /\ Cardinality(keys_put) > _capacity

\* C16: with capacity 1, a put of a key other than the only resident key
\* replaces the resident: the call returns, size() is 1, the new key with the
\* new value is both front and back, the index holds the new key only, and
\* get of the old key returns not-found.
C16_CapacityOneReplacesResident ==
    [][ \A j \in Keys :
          (/\ lastOp'.op = "put"
           /\ _capacity = 1
           /\ DOMAIN _lru_cache_map = {j}
           /\ lastOp'.key # j) =>
              /\ phase' = "live"
              /\ lastOp'.threw = "none"
              /\ _size' = 1
              /\ _front' # NULL /\ _front' = _back'
              /\ heap'[_front'].live
              /\ heap'[_front'].key = lastOp'.key
              /\ heap'[_front'].value = lastOp'.value
              /\ DOMAIN _lru_cache_map' = {lastOp'.key}
              /\ _lru_cache_map'[lastOp'.key] = _front'
              /\ GetReturnsIn(heap', _lru_cache_map', j) = {KEY_NOT_FOUND_RET_VAL}
      ]_vars

\* The list with memory h, ends front and back and count size is well formed.
WellFormed(h, front, back, size) ==
    LET w == Walk(h, front, WalkFuel)
    IN  /\ Len(w) = size
        /\ \A i \in 1..Len(w) : h[w[i]].live
        /\ \A i, j \in 1..Len(w) : i # j => w[i] # w[j]
        /\ (front = NULL) <=> (size = 0)
        /\ (back = NULL) <=> (size = 0)
        /\ size > 0 =>
              /\ w[size] = back
              /\ h[back].next = NULL
              /\ h[front].prev = NULL
        /\ \A i \in 2..Len(w) : h[w[i]].prev = w[i - 1]
        /\ \A i, j \in 1..Len(w) :
              (h[w[i]].next = w[j]) <=> (h[w[j]].prev = w[i])

\* C17: after every add_to_front and every move_to_front the recency list is
\* well formed: next from front visits size() distinct nodes and ends at
\* back, prev from back visits them in reverse, A.next = B exactly when
\* B.prev = A, front.prev and back.next are absent, and front and back are
\* absent exactly when size() = 0.
C17_ListWellFormed ==
    (/\ phase = "live"
     /\ lastOp.path \in {"grow", "hit", "update", "evict"}
     /\ lastOp.threw = "none") =>
        WellFormed(heap, _front, _back, _size)

\* The node move_to_front was given in the call that lastOp' records.
Given == IF lastOp'.path = "evict" THEN _back ELSE _lru_cache_map[lastOp'.key]

\* C18: move_to_front(h) makes h the front, keeps size() and keeps the other
\* nodes in their front-to-back order; when h was the back, the new back is
\* the node that was before h; when h was the front, no link and no end
\* changes.
C18_MoveToFrontMovesOnlyTheNode ==
    [][ lastOp'.path \in {"hit", "update", "evict"} =>
          /\ phase' = "live"
          /\ _front' = Given
          /\ _size' = _size
          /\ Others(Nodes', Given) = Others(Nodes, Given)
          /\ (Given = _back /\ Given # _front) =>
                (heap[Given].live /\ _back' = heap[Given].prev)
          /\ Given = _front =>
                /\ _back' = _back
                /\ \A a \in Addr : /\ heap'[a].prev = heap[a].prev
                                   /\ heap'[a].next = heap[a].next
                                   /\ heap'[a].live = heap[a].live
      ]_vars

\* C19: in every run of get, put and clear ended by destruction no call
\* reads, writes or relinks a deleted node and no node is deleted twice.
C19_NoUseAfterDeleteNoDoubleDelete ==
    ~uaf /\ ~dblfree

\* C20: get(k) returns the not-found value -1 exactly when k is not
\* resident, whatever values have been put, -1 included.
C20_NotFoundExactlyWhenAbsent ==
    [][ lastOp'.op = "get" =>
          ((lastOp'.ret = KEY_NOT_FOUND_RET_VAL)
              <=> (lastOp'.key \notin DOMAIN _lru_cache_map))
      ]_vars

====
